---- MODULE Spec2Model ----
(***************************************************************************)
(* TaskMaster: the Channel Store (ChannelContext), the Task Store          *)
(* (TaskContext) and the direct-message permission check, modelled over    *)
(* the backing document store and the per-identity snapshot caches.        *)
(***************************************************************************)
EXTENDS Integers, FiniteSets, Sequences, TLC

(* ------------------------------ bounds --------------------------------- *)
MaxCodes == 2
MaxItems == 2
MaxChat == 2        \* messages a conversation holds where the log length is not at stake
MaxSubs == 2        \* listeners a conversation view has registered and not released
MaxPending == 2     \* submissions of the Channels page awaiting their store operation

(* ------------------------------ universe ------------------------------- *)
Users == {"u1", "u2", "u3"}
NoUser == "nobody"
Callers == Users \cup {NoUser}
ChannelIds == {1}                  \* the channel document the operations address
NoCode == 0
Codes == 1..MaxCodes
TaskIds == {1}                     \* the task document the operations address
Personal == 0                      \* channelId absent: collection 'tasks'
Locations == {Personal} \cup ChannelIds
ChatChannelIds == ChannelIds \cup {2}   \* channel ids a chat window can be opened on
NoView == 0                        \* no conversation: window not mounted, ref null
MessageLimit == 100                \* limit(100) of the channel message query

VARIABLES
    channels,        \* backing store: collection 'channels', id -> document
    nextCode,        \* number of invite codes uuidv4() has produced so far
    joinedChannels,  \* per identity: ChannelProvider state joinedChannels
    tasks,           \* backing store: 'tasks' and 'channels/{id}/tasks' documents
    taskCache,       \* per identity: TaskProvider state tasks
    result,          \* outcome of the most recent store operation
    startedBefore,   \* history: per task, whether its stored status was
                     \* in_progress when it last became completed
    messages,        \* backing store: 'channels/{id}/messages', the createdAt
                     \* of the documents of each channel in the order added
    clock,           \* wall-clock time, in ticks
    directMessages,  \* backing store: collection 'directMessages', the
                     \* <<senderId, receiverId>> of its documents in the order added
    chatView,        \* the chat window of the viewing session and ChatProvider:
                     \*   channelId: prop of the mounted ChatWindow, or NoView
                     \*   ref:       channel of the listener unsubscribeRef holds
                     \*   pending:   listeners whose awaiting setupMessages has
                     \*              not resumed yet, in the order registered
                     \*   subs:      per channel, the number of live listeners
                     \*   log:       ChatProvider state messages (createdAt)
    dmView,          \* the direct-message window of the viewing session and
                     \* DirectMessageProvider:
                     \*   userId: prop of the mounted DirectMessageWindow, or NoUser
                     \*   subs:   per user, the live listeners getMessagesWithUser made
                     \*   log:    DirectMessageProvider state messages
    error,           \* per store, the provider's error state in the session
                     \* that made the most recent call to that store
    taskView         \* the TaskProvider of the session whose tasks are watched:
                     \*   user:     currentUser of the session, or NoUser
                     \*   dirty:    joinedChannels was set and the effect has
                     \*             not run again yet
                     \*   personal: listeners on personalTasksQuery not unsubscribed
                     \*   chan:     per channel, listeners on its tasks not unsubscribed
                     \*   failed:   the listeners among them whose error callback
                     \*             has run (Personal or a channel id)
    ,
    joinView         \* the Channels page of the session of Joiner:
                     \*   joinLoading: state joinLoading, a channel id or NoView
                     \*   pending:     the submissions whose store operation has
                     \*                not completed, <<"channel", id>> or
                     \*                <<"code", inviteCode>>, in the order made
    ,
    inflight         \* the promoteToAdmin calls that have fetched and checked
                     \* the channel document and not written yet:
                     \* <<caller, channel id, userId>>, in the order begun

vars == <<channels, nextCode, joinedChannels, tasks, taskCache, result, startedBefore,
          messages, clock, directMessages, chatView, dmView, error, taskView, joinView,
          inflight>>

Stores == {"channel", "task", "chat", "dm"}

(* setError(null) on the way in, setError(err.message) in the catch block *)
setError(store) ==
    error' = [error EXCEPT ![store] = IF result' = "ok" THEN "null" ELSE result']

(* the state that the Channel Store and Task Store operations never touch *)
sessions == <<taskView, joinView, inflight>>
others == <<messages, clock, directMessages, chatView, dmView, sessions>>

NoChannel == [exists |-> FALSE, isPublic |-> FALSE, createdBy |-> NoUser,
              members |-> {}, admins |-> {}, inviteCode |-> NoCode]

Channel(isPublic, createdBy, members, admins, inviteCode) ==
    [exists |-> TRUE, isPublic |-> isPublic, createdBy |-> createdBy,
     members |-> members, admins |-> admins, inviteCode |-> inviteCode]

(* arrayUnion / arrayRemove on a document's array field *)
arrayUnion(arr, x) == arr \cup {x}
arrayRemove(arr, x) == arr \ {x}

(* updateDoc(channelRef, fields): the document with the given fields replaced *)
updateDoc(c, fields) ==
    channels' = [channels EXCEPT ![c] =
        [f \in DOMAIN @ |-> IF f \in DOMAIN fields THEN fields[f] ELSE @[f]]]

(* variant: the failure is raised and the error state keeps its value *)
Throw_notRecorded(msg) ==
    /\ result' = msg
    /\ UNCHANGED error
    /\ UNCHANGED <<channels, nextCode, joinedChannels, tasks, taskCache>>
    /\ UNCHANGED <<startedBefore, others>>

(* catch (err) { setError(err.message); throw err; }: nothing is written *)
Throw(msg) == /\ result' = msg
              /\ setError("channel")
              /\ UNCHANGED <<channels, nextCode, joinedChannels, tasks, taskCache>>
              /\ UNCHANGED <<startedBefore, others>>

Done == /\ result' = "ok"
        /\ setError("channel")
        /\ UNCHANGED <<joinedChannels, tasks, taskCache>>
        /\ UNCHANGED <<startedBefore, others>>

(* the store operation ends for a handler of the page: catch (error) {     *)
(* setError(error.message) } of the handler takes the failure              *)
PageThrow(msg) ==
    /\ result' = msg
    /\ setError("channel")
    /\ UNCHANGED <<channels, nextCode, joinedChannels, tasks, taskCache, startedBefore,
                   messages, clock, directMessages, chatView, dmView, taskView, inflight>>

PageDone ==
    /\ result' = "ok"
    /\ setError("channel")
    /\ UNCHANGED <<joinedChannels, tasks, taskCache, startedBefore,
                   messages, clock, directMessages, chatView, dmView, taskView, inflight>>

(* how a call ends for its caller: a handler of the Channels page (page),  *)
(* which resumes after it, or any other caller                             *)
Raise(page, msg) == IF page THEN PageThrow(msg) ELSE Throw(msg)

Return(page) == IF page THEN PageDone ELSE Done

(* addDoc assigns a document id that no existing document has *)
FreshChannelId == CHOOSE c \in ChannelIds :
                     /\ ~channels[c].exists
                     /\ \A d \in ChannelIds : ~channels[d].exists => c <= d

(* no session is signed in: the TaskProvider holds no listener *)
NoTaskView == [user |-> NoUser, dirty |-> FALSE, personal |-> 0,
               chan |-> [c \in ChannelIds |-> 0], failed |-> {}]

(* ----------------------------- Channel Store --------------------------- *)
createChannel(u, isPublic) ==
    IF u = NoUser THEN Throw("AuthRequired")
    ELSE /\ \E c \in ChannelIds : ~channels[c].exists
         /\ isPublic \/ nextCode < MaxCodes
         /\ LET code == IF isPublic THEN NoCode ELSE nextCode + 1
            IN  /\ channels' = [channels EXCEPT ![FreshChannelId] =
                                   Channel(isPublic, u, {u}, {u}, code)]
                /\ nextCode' = IF isPublic THEN nextCode ELSE nextCode + 1
         /\ Done

(* variant: the admin check reads the caller's cached copy of the channel *)
updateChannel_cachedAdmins(u, c, updates) ==
    IF u = NoUser THEN Throw("AuthRequired")
    ELSE IF ~channels[c].exists THEN Throw("NotFound")
    ELSE IF u \notin joinedChannels[u][c].admins THEN Throw("NotAdmin")
    ELSE /\ updateDoc(c, updates)
         /\ UNCHANGED nextCode
         /\ Done

updateChannel(u, c, updates) ==
    IF u = NoUser THEN Throw("AuthRequired")
    ELSE IF ~channels[c].exists THEN Throw("NotFound")
    ELSE IF u \notin channels[c].admins THEN Throw("NotAdmin")
    ELSE /\ updateDoc(c, updates)
         /\ UNCHANGED nextCode
         /\ Done

(* joinChannel; page tells how the call ends for its caller *)
joinChannelVia(u, c, page) ==
    IF u = NoUser THEN Raise(page, "AuthRequired")
    ELSE IF ~channels[c].exists THEN Raise(page, "NotFound")
    ELSE IF u \in channels[c].members THEN Raise(page, "AlreadyMember")
    ELSE /\ updateDoc(c, [members |-> arrayUnion(channels[c].members, u)])
         /\ UNCHANGED nextCode
         /\ Return(page)

joinChannel(u, c) == joinChannelVia(u, c, FALSE)

(* variant: the caller is taken out of members only *)
leaveChannel_keepsAdmin(u, c) ==
    IF u = NoUser THEN Throw("AuthRequired")
    ELSE IF ~channels[c].exists THEN Throw("NotFound")
    ELSE IF channels[c].createdBy = u THEN Throw("CreatorCannotLeave")
    ELSE /\ updateDoc(c, [members |-> arrayRemove(channels[c].members, u)])
         /\ UNCHANGED nextCode
         /\ Done

(* variant: the creator is not turned away *)
leaveChannel_noCreatorCheck(u, c) ==
    IF u = NoUser THEN Throw("AuthRequired")
    ELSE IF ~channels[c].exists THEN Throw("NotFound")
    ELSE /\ updateDoc(c, [members |-> arrayRemove(channels[c].members, u),
                          admins |-> arrayRemove(channels[c].admins, u)])
         /\ UNCHANGED nextCode
         /\ Done

leaveChannel(u, c) ==
    IF u = NoUser THEN Throw("AuthRequired")
    ELSE IF ~channels[c].exists THEN Throw("NotFound")
    ELSE IF channels[c].createdBy = u THEN Throw("CreatorCannotLeave")
    ELSE /\ updateDoc(c, [members |-> arrayRemove(channels[c].members, u),
                          admins |-> arrayRemove(channels[c].admins, u)])
         /\ UNCHANGED nextCode
         /\ Done

(* getDocs(query(where('inviteCode', '==', inviteCode))) *)
CodeMatches(code) == {c \in ChannelIds : channels[c].exists /\ channels[c].inviteCode = code}

(* querySnapshot.docs[0] *)
FirstMatch(code) == CHOOSE c \in CodeMatches(code) : \A d \in CodeMatches(code) : c <= d

(* variant: membership of the caller is not checked *)
joinByCodeOutcome_noMemberCheck(u, code) ==
    IF u = NoUser THEN "AuthRequired"
    ELSE IF CodeMatches(code) = {} THEN "InvalidCode"
    ELSE IF channels[FirstMatch(code)].isPublic THEN "WrongChannelType"
    ELSE "ok"

(* the checks of joinChannelByInviteCode, in the order the code makes them *)
joinByCodeOutcome(u, code) ==
    IF u = NoUser THEN "AuthRequired"
    ELSE IF CodeMatches(code) = {} THEN "InvalidCode"
    ELSE IF u \in channels[FirstMatch(code)].members THEN "AlreadyMember"
    ELSE IF channels[FirstMatch(code)].isPublic THEN "WrongChannelType"
    ELSE "ok"

(* joinChannelByInviteCode; page as in joinChannelVia *)
joinChannelByInviteCodeVia(u, code, page) ==
    IF joinByCodeOutcome(u, code) # "ok" THEN Raise(page, joinByCodeOutcome(u, code))
    ELSE /\ updateDoc(FirstMatch(code),
                      [members |-> arrayUnion(channels[FirstMatch(code)].members, u)])
         /\ UNCHANGED nextCode
         /\ Return(page)

joinChannelByInviteCode(u, code) == joinChannelByInviteCodeVia(u, code, FALSE)

addMemberToChannel(u, c, userId) ==
    IF u = NoUser THEN Throw("AuthRequired")
    ELSE IF ~channels[c].exists THEN Throw("NotFound")
    ELSE IF u \notin channels[c].admins THEN Throw("NotAdmin")
    ELSE /\ updateDoc(c, [members |-> arrayUnion(channels[c].members, userId)])
         /\ UNCHANGED nextCode
         /\ Done

(* variant: the creator can be removed *)
removeMemberFromChannel_noCreatorCheck(u, c, userId) ==
    IF u = NoUser THEN Throw("AuthRequired")
    ELSE IF ~channels[c].exists THEN Throw("NotFound")
    ELSE IF u \notin channels[c].admins THEN Throw("NotAdmin")
    ELSE /\ updateDoc(c, [members |-> arrayRemove(channels[c].members, userId),
                          admins |-> arrayRemove(channels[c].admins, userId)])
         /\ UNCHANGED nextCode
         /\ Done

removeMemberFromChannel(u, c, userId) ==
    IF u = NoUser THEN Throw("AuthRequired")
    ELSE IF ~channels[c].exists THEN Throw("NotFound")
    ELSE IF u \notin channels[c].admins THEN Throw("NotAdmin")
    ELSE IF userId = channels[c].createdBy THEN Throw("CannotRemoveCreator")
    ELSE /\ updateDoc(c, [members |-> arrayRemove(channels[c].members, userId),
                          admins |-> arrayRemove(channels[c].admins, userId)])
         /\ UNCHANGED nextCode
         /\ Done

(* deleteDoc(channelRef) removes the channel document and nothing else *)
deleteChannel(u, c) ==
    IF u = NoUser THEN Throw("AuthRequired")
    ELSE IF ~channels[c].exists THEN Throw("NotFound")
    ELSE IF channels[c].createdBy # u THEN Throw("NotCreator")
    ELSE /\ channels' = [channels EXCEPT ![c] = NoChannel]
         /\ UNCHANGED nextCode
         /\ Done

(* variant: any admin of the channel may promote *)
promoteToAdmin_anyAdmin(u, c, userId) ==
    IF u = NoUser THEN Throw("AuthRequired")
    ELSE IF ~channels[c].exists THEN Throw("NotFound")
    ELSE IF u \notin channels[c].admins THEN Throw("NotCreator")
    ELSE IF userId \notin channels[c].members THEN Throw("NotAMember")
    ELSE /\ updateDoc(c, [admins |-> arrayUnion(channels[c].admins, userId)])
         /\ UNCHANGED nextCode
         /\ Done

promoteToAdmin(u, c, userId) ==
    IF u = NoUser THEN Throw("AuthRequired")
    ELSE IF ~channels[c].exists THEN Throw("NotFound")
    ELSE IF channels[c].createdBy # u THEN Throw("NotCreator")
    ELSE IF userId \notin channels[c].members THEN Throw("NotAMember")
    ELSE /\ updateDoc(c, [admins |-> arrayUnion(channels[c].admins, userId)])
         /\ UNCHANGED nextCode
         /\ Done

demoteFromAdmin(u, c, userId) ==
    IF u = NoUser THEN Throw("AuthRequired")
    ELSE IF ~channels[c].exists THEN Throw("NotFound")
    ELSE IF channels[c].createdBy # u THEN Throw("NotCreator")
    ELSE IF userId = channels[c].createdBy THEN Throw("CannotDemoteCreator")
    ELSE /\ updateDoc(c, [admins |-> arrayRemove(channels[c].admins, userId)])
         /\ UNCHANGED nextCode
         /\ Done

(* variant: the new code is returned but the stored code is kept *)
generateInviteCode_keepsOld(u, c) ==
    IF u = NoUser THEN Throw("AuthRequired")
    ELSE IF ~channels[c].exists THEN Throw("NotFound")
    ELSE IF u \notin channels[c].admins THEN Throw("NotAdmin")
    ELSE /\ nextCode < MaxCodes
         /\ nextCode' = nextCode + 1
         /\ updateDoc(c, [inviteCode |-> channels[c].inviteCode])
         /\ Done

generateInviteCode(u, c) ==
    IF u = NoUser THEN Throw("AuthRequired")
    ELSE IF ~channels[c].exists THEN Throw("NotFound")
    ELSE IF u \notin channels[c].admins THEN Throw("NotAdmin")
    ELSE /\ nextCode < MaxCodes
         /\ nextCode' = nextCode + 1                  \* uuidv4()
         /\ updateDoc(c, [inviteCode |-> nextCode + 1])
         /\ Done

(* Partial<ChannelInput>; name and description carry no behaviour here *)
ChannelUpdates == {<<>>} \cup {[isPublic |-> b] : b \in BOOLEAN}

(* ------------------- ChannelProvider snapshot cache -------------------- *)
(* onSnapshot(joinedChannelsQuery): where('members', 'array-contains', uid) *)
JoinedSnapshot(u) ==
    /\ joinedChannels' = [joinedChannels EXCEPT ![u] =
           [c \in ChannelIds |-> IF channels[c].exists /\ u \in channels[c].members
                                 THEN channels[c] ELSE NoChannel]]
    /\ UNCHANGED <<channels, nextCode, tasks, taskCache, result>>
    /\ UNCHANGED <<startedBefore, others, error>>

(* DirectMessageProvider.canMessageUser, evaluated in the session of cur *)
canMessageUser(cur, userId) ==
    IF cur = NoUser THEN FALSE
    ELSE LET sharedChannels == {c \in ChannelIds :
                 /\ joinedChannels[cur][c].exists
                 /\ userId \in joinedChannels[cur][c].members
                 /\ cur \in joinedChannels[cur][c].members}
         IN  sharedChannels # {}

(* ------------------------------ Task Store ----------------------------- *)
NoTask == [exists |-> FALSE, channelId |-> Personal, createdBy |-> NoUser, type |-> "regular",
           shoppingItems |-> <<>>, dueDate |-> FALSE, privacy |-> "private",
           completed |-> FALSE, status |-> "not_started"]

(* rules.txt, match /tasks/{taskId} and match /channels/{channelId}/tasks/{taskId} *)
RulesAllowTaskCreate(u, loc) ==
    IF loc = Personal THEN TRUE
    ELSE /\ channels[loc].exists
         /\ \/ u \in channels[loc].members
            \/ u \in channels[loc].admins
            \/ channels[loc].createdBy = u

RulesAllowTaskUpdate(u, id) ==
    IF tasks[id].channelId = Personal THEN tasks[id].createdBy = u
    ELSE \/ tasks[id].createdBy = u
         \/ u \in channels[tasks[id].channelId].admins
         \/ channels[tasks[id].channelId].createdBy = u

(* updateDoc(taskRef, fields) on the document `id` of the collection `loc` *)
updateTaskDoc(u, id, loc, fields) ==
    IF ~(tasks[id].exists /\ tasks[id].channelId = loc) \/ ~RulesAllowTaskUpdate(u, id)
    THEN /\ result' = "ProviderError"
         /\ UNCHANGED tasks
    ELSE /\ tasks' = [tasks EXCEPT ![id] =
               [f \in DOMAIN @ |-> IF f \in DOMAIN fields THEN fields[f] ELSE @[f]]]
         /\ result' = "ok"

TaskThrow(msg) == /\ result' = msg
                  /\ UNCHANGED tasks

(* history of the status field the writes to a task document leave behind *)
statusHistory ==
    startedBefore' = [t \in TaskIds |->
        IF tasks'[t].status = "completed" /\ tasks[t].status # "completed"
        THEN tasks[t].status = "in_progress"
        ELSE IF ~tasks'[t].exists THEN FALSE
        ELSE startedBefore[t]]

FreshTaskId == CHOOSE t \in TaskIds :
                  /\ ~tasks[t].exists
                  /\ \A d \in TaskIds : ~tasks[d].exists => t <= d

(* taskInput: channelId, type, shoppingItems (names only), dueDate, privacy *)
addTask(u, channelId, type, nItems, dueDate, privacy) ==
    /\ IF u = NoUser THEN TaskThrow("AuthRequired")
       ELSE IF ~RulesAllowTaskCreate(u, channelId) THEN TaskThrow("ProviderError")
       ELSE /\ \E t \in TaskIds : ~tasks[t].exists
            /\ tasks' = [tasks EXCEPT ![FreshTaskId] =
                  [exists |-> TRUE, channelId |-> channelId, createdBy |-> u, type |-> type,
                   shoppingItems |-> [i \in 1..nItems |-> FALSE],
                   dueDate |-> dueDate, privacy |-> privacy,
                   completed |-> FALSE, status |-> "not_started"]]
            /\ result' = "ok"
    /\ UNCHANGED <<channels, nextCode, joinedChannels, taskCache>>
    /\ statusHistory
    /\ setError("task")
    /\ UNCHANGED others

(* the body of updateTask; `updates` is a record holding the fields given *)
updateTaskBody(u, id, updates) ==
    IF u = NoUser THEN TaskThrow("AuthRequired")
    ELSE IF "dueDate" \in DOMAIN updates /\ updates.dueDate = FALSE
         THEN TaskThrow("InvalidData")     \* field value undefined
    ELSE updateTaskDoc(u, id,
            IF "channelId" \in DOMAIN updates THEN updates.channelId ELSE Personal,
            updates)

updateTask(u, id, updates) ==
    /\ updateTaskBody(u, id, updates)
    /\ UNCHANGED <<channels, nextCode, joinedChannels, taskCache>>
    /\ statusHistory
    /\ setError("task")
    /\ UNCHANGED others

deleteTask(u, id, channelId) ==
    /\ IF u = NoUser THEN TaskThrow("AuthRequired")
       ELSE IF ~(tasks[id].exists /\ tasks[id].channelId = channelId)
               \/ ~RulesAllowTaskUpdate(u, id)
       THEN TaskThrow("ProviderError")
       ELSE /\ tasks' = [tasks EXCEPT ![id] = NoTask]
            /\ result' = "ok"
    /\ UNCHANGED <<channels, nextCode, joinedChannels, taskCache>>
    /\ statusHistory
    /\ setError("task")
    /\ UNCHANGED others

(* the body of toggleTaskCompletion; `task` is tasks.find(t => t.id === id) *)
toggleTaskCompletionBody(u, id, completed, channelId, task) ==
    IF u = NoUser THEN TaskThrow("AuthRequired")
    ELSE IF task.exists /\ task.type = "shopping"
    THEN updateTaskDoc(u, id, channelId,
            [completed |-> completed,
             status |-> IF completed THEN "completed" ELSE "not_started",
             shoppingItems |-> [i \in DOMAIN task.shoppingItems |-> completed]])
    ELSE updateTaskDoc(u, id, channelId,
            [completed |-> completed,
             status |-> IF completed THEN "completed"
                        ELSE IF task.exists /\ task.status = "in_progress"
                             THEN "in_progress" ELSE "not_started"])

toggleTaskCompletion(u, id, completed, channelId) ==
    /\ toggleTaskCompletionBody(u, id, completed, channelId,
                                IF u = NoUser THEN NoTask ELSE taskCache[u][id])
    /\ UNCHANGED <<channels, nextCode, joinedChannels, taskCache>>
    /\ statusHistory
    /\ setError("task")
    /\ UNCHANGED others

every(items) == \A i \in DOMAIN items : items[i]
some(items) == \E i \in DOMAIN items : items[i]

(* variant: the status is derived from the item list before the update *)
toggleShoppingItemBody_statusFromOld(u, taskId, itemId, completed, channelId, task) ==
    IF u = NoUser THEN TaskThrow("AuthRequired")
    ELSE IF ~task.exists THEN TaskThrow("TaskNotFound")
    ELSE LET updatedItems == [i \in DOMAIN task.shoppingItems |->
                                 IF i = itemId THEN completed ELSE task.shoppingItems[i]]
             allCompleted == every(task.shoppingItems)
             anyCompleted == some(task.shoppingItems)
             newStatus == IF allCompleted THEN "completed"
                          ELSE IF anyCompleted THEN "in_progress" ELSE "not_started"
         IN  updateTaskDoc(u, taskId, channelId,
                [shoppingItems |-> updatedItems, status |-> newStatus,
                 completed |-> allCompleted])

toggleShoppingItemBody(u, taskId, itemId, completed, channelId, task) ==
    IF u = NoUser THEN TaskThrow("AuthRequired")
    ELSE IF ~task.exists THEN TaskThrow("TaskNotFound")
    ELSE LET updatedItems == [i \in DOMAIN task.shoppingItems |->
                                 IF i = itemId THEN completed ELSE task.shoppingItems[i]]
             allCompleted == every(updatedItems)
             anyCompleted == some(updatedItems)
             newStatus == IF allCompleted THEN "completed"
                          ELSE IF anyCompleted THEN "in_progress" ELSE "not_started"
         IN  updateTaskDoc(u, taskId, channelId,
                [shoppingItems |-> updatedItems, status |-> newStatus,
                 completed |-> allCompleted])

toggleShoppingItem(u, taskId, itemId, completed, channelId) ==
    /\ toggleShoppingItemBody(u, taskId, itemId, completed, channelId,
                              IF u = NoUser THEN NoTask ELSE taskCache[u][taskId])
    /\ UNCHANGED <<channels, nextCode, joinedChannels, taskCache>>
    /\ statusHistory
    /\ setError("task")
    /\ UNCHANGED others

(* TaskList.handleStatusChange as mounted by TodoView: the list holds the  *)
(* provider's task objects that are personal and created by the identity   *)
handleStatusChange(u, taskId, newStatus) ==
    /\ taskCache[u][taskId].exists
    /\ taskCache[u][taskId].channelId = Personal
    /\ taskCache[u][taskId].createdBy = u
    /\ LET task == [taskCache[u][taskId] EXCEPT !.status = newStatus]
       IN  /\ taskCache' = [taskCache EXCEPT ![u][taskId] = task]
           /\ IF newStatus = "in_progress"
              THEN updateTaskBody(u, taskId, task)
              ELSE toggleTaskCompletionBody(u, taskId, newStatus = "completed",
                                            Personal, task)
    /\ UNCHANGED <<channels, nextCode, joinedChannels>>
    /\ statusHistory
    /\ setError("task")
    /\ UNCHANGED others

(* onSnapshot(personalTasksQuery): createdBy == uid or privacy == 'public' *)
PersonalSnapshot(u) ==
    /\ taskCache' = [taskCache EXCEPT ![u] = [t \in TaskIds |->
          IF /\ tasks[t].exists /\ tasks[t].channelId = Personal
             /\ (tasks[t].createdBy = u \/ tasks[t].privacy = "public")
          THEN tasks[t]
          ELSE IF taskCache[u][t].exists /\ taskCache[u][t].channelId # Personal
               THEN taskCache[u][t] ELSE NoTask]]
    /\ UNCHANGED <<channels, nextCode, joinedChannels, tasks, result>>
    /\ UNCHANGED <<startedBefore, others, error>>

(* onSnapshot(channelQuery) of a channel in the identity's joinedChannels *)
ChannelTasksSnapshot(u, c) ==
    /\ joinedChannels[u][c].exists
    /\ taskCache' = [taskCache EXCEPT ![u] = [t \in TaskIds |->
          IF tasks[t].exists /\ tasks[t].channelId = c
          THEN tasks[t]
          ELSE IF taskCache[u][t].exists /\ taskCache[u][t].channelId # c
               THEN taskCache[u][t] ELSE NoTask]]
    /\ UNCHANGED <<channels, nextCode, joinedChannels, tasks, result>>
    /\ UNCHANGED <<startedBefore, others, error>>

Init ==
    /\ channels = [c \in ChannelIds |-> NoChannel]
    /\ nextCode = 0
    /\ joinedChannels = [u \in Users |-> [c \in ChannelIds |-> NoChannel]]
    /\ tasks = [t \in TaskIds |-> NoTask]
    /\ taskCache = [u \in Users |-> [t \in TaskIds |-> NoTask]]
    /\ result = "ok"
    /\ startedBefore = [t \in TaskIds |-> FALSE]
    /\ messages = [c \in ChatChannelIds |-> <<>>]
    /\ clock = 2
    /\ directMessages = <<>>
    /\ chatView = [channelId |-> NoView, ref |-> NoView, pending |-> <<>>,
                   subs |-> [c \in ChatChannelIds |-> 0], log |-> <<>>]
    /\ dmView = [userId |-> NoUser, subs |-> [t \in Users |-> 0], log |-> <<>>]
    /\ error = [s \in Stores |-> "null"]
    /\ taskView = NoTaskView
    /\ joinView = [joinLoading |-> NoView, pending |-> <<>>]
    /\ inflight = <<>>

Next ==
    \/ \E u \in Callers, p \in BOOLEAN : createChannel(u, p)
    \/ \E u \in Callers, c \in ChannelIds, up \in ChannelUpdates : updateChannel(u, c, up)
    \/ \E u \in Callers, c \in ChannelIds : joinChannel(u, c)
    \/ \E u \in Callers, c \in ChannelIds : leaveChannel(u, c)
    \/ \E u \in Callers, k \in Codes : joinChannelByInviteCode(u, k)
    \/ \E u \in Callers, c \in ChannelIds, t \in Users : addMemberToChannel(u, c, t)
    \/ \E u \in Callers, c \in ChannelIds, t \in Users : removeMemberFromChannel(u, c, t)
    \/ \E u \in Callers, c \in ChannelIds, t \in Users : promoteToAdmin(u, c, t)
    \/ \E u \in Callers, c \in ChannelIds, t \in Users : demoteFromAdmin(u, c, t)
    \/ \E u \in Callers, c \in ChannelIds : generateInviteCode(u, c)
    \/ \E u \in Callers, c \in ChannelIds : deleteChannel(u, c)

Spec == Init /\ [][Next]_vars

(* Membership operations interleaved with the delivery of membership snapshots *)
NextDM ==
    \/ \E u \in Callers, p \in BOOLEAN : createChannel(u, p)
    \/ \E u \in Callers, c \in ChannelIds : joinChannel(u, c)
    \/ \E u \in Callers, c \in ChannelIds : leaveChannel(u, c)
    \/ \E u \in Callers, k \in Codes : joinChannelByInviteCode(u, k)
    \/ \E u \in Callers, c \in ChannelIds, t \in Users : addMemberToChannel(u, c, t)
    \/ \E u \in Callers, c \in ChannelIds, t \in Users : removeMemberFromChannel(u, c, t)
    \/ \E u \in Users : JoinedSnapshot(u)

SpecDM == Init /\ [][NextDM]_vars

(* The Channel Store operations of two identities interleaved with the     *)
(* delivery of membership snapshots to the session of u2                    *)
CacheCallers == {"u1", "u2"}
NextCache ==
    \/ \E u \in CacheCallers, p \in BOOLEAN : createChannel(u, p)
    \/ \E u \in CacheCallers, c \in ChannelIds, up \in ChannelUpdates : updateChannel(u, c, up)
    \/ \E u \in CacheCallers, c \in ChannelIds : deleteChannel(u, c)
    \/ \E u \in CacheCallers, c \in ChannelIds : joinChannel(u, c)
    \/ \E u \in CacheCallers, c \in ChannelIds : leaveChannel(u, c)
    \/ \E u \in CacheCallers, c \in ChannelIds, t \in CacheCallers : addMemberToChannel(u, c, t)
    \/ \E u \in CacheCallers, c \in ChannelIds, t \in CacheCallers : removeMemberFromChannel(u, c, t)
    \/ \E u \in CacheCallers, c \in ChannelIds, t \in CacheCallers : promoteToAdmin(u, c, t)
    \/ \E u \in CacheCallers, c \in ChannelIds, t \in CacheCallers : demoteFromAdmin(u, c, t)
    \/ \E u \in CacheCallers, c \in ChannelIds : generateInviteCode(u, c)
    \/ JoinedSnapshot("u2")

SpecCache == Init /\ [][NextCache]_vars

(* ------------------------- Direct Message Store ------------------------ *)
(* rules.txt, match /directMessages/{messageId}: allow create *)
RulesAllowDirectMessageCreate(u, senderId) == u # NoUser /\ u = senderId

(* DirectMessageProvider.sendMessage *)
DMSendMessage(u, receiverId) ==
    /\ IF u = NoUser
       THEN result' = "AuthRequired" /\ UNCHANGED directMessages
       ELSE IF ~canMessageUser(u, receiverId)
       THEN result' = "NotPermitted" /\ UNCHANGED directMessages
       ELSE IF ~RulesAllowDirectMessageCreate(u, u)
       THEN result' = "ProviderError" /\ UNCHANGED directMessages
       ELSE /\ directMessages' = Append(directMessages, <<u, receiverId>>)
            /\ result' = "ok"
    /\ setError("dm")
    /\ UNCHANGED <<channels, nextCode, joinedChannels, tasks, taskCache, startedBefore,
                   messages, clock, chatView, dmView, sessions>>

(* Membership operations, membership snapshots and direct messages between *)
(* u1 and u2                                                               *)
DMUsers == {"u1", "u2"}
NextSend ==
    \/ NextDM
    \/ \E u \in DMUsers \cup {NoUser}, t \in DMUsers :
          u # t /\ Len(directMessages) < MaxChat /\ DMSendMessage(u, t)

SpecSend == Init /\ [][NextSend]_vars

(* The Task Store over one channel whose membership is settled: channel 1  *)
(* is public, created by u1 and joined by u2, and every identity's         *)
(* membership snapshot has been delivered.                                 *)
SettledChannel(c) ==
    IF c = 1 THEN Channel(TRUE, "u1", {"u1", "u2"}, {"u1"}, NoCode) ELSE NoChannel

InitTasks ==
    /\ channels = [c \in ChannelIds |-> SettledChannel(c)]
    /\ nextCode = 0
    /\ joinedChannels = [u \in Users |-> [c \in ChannelIds |->
          IF u \in SettledChannel(c).members THEN SettledChannel(c) ELSE NoChannel]]
    /\ tasks = [t \in TaskIds |-> NoTask]
    /\ taskCache = [u \in Users |-> [t \in TaskIds |-> NoTask]]
    /\ result = "ok"
    /\ startedBefore = [t \in TaskIds |-> FALSE]
    /\ messages = [c \in ChatChannelIds |-> <<>>]
    /\ clock = 2
    /\ directMessages = <<>>
    /\ chatView = [channelId |-> NoView, ref |-> NoView, pending |-> <<>>,
                   subs |-> [c \in ChatChannelIds |-> 0], log |-> <<>>]
    /\ dmView = [userId |-> NoUser, subs |-> [t \in Users |-> 0], log |-> <<>>]
    /\ error = [s \in Stores |-> "null"]
    /\ taskView = NoTaskView
    /\ joinView = [joinLoading |-> NoView, pending |-> <<>>]
    /\ inflight = <<>>

Statuses == {"not_started", "in_progress", "completed"}
(* Partial<TaskInput>: a due date given for a personal or a channel task *)
TaskUpdates == {[dueDate |-> TRUE], [dueDate |-> TRUE, channelId |-> 1]}

(* the identities that use the Task Store: the members of the channel *)
TaskUsers == SettledChannel(1).members
TaskCallers == TaskUsers \cup {NoUser}

(* TaskList.handleAddTask: a regular task carries an empty item list *)
TaskInputs == {<<"regular", 0>>} \cup {<<"shopping", n>> : n \in 0..MaxItems}

NextShop ==
    \/ \E u \in TaskCallers, l \in Locations, n \in 0..MaxItems, d \in BOOLEAN :
          addTask(u, l, "shopping", n, d, "private")
    \/ \E u \in TaskCallers, t \in TaskIds, i \in 1..MaxItems, b \in BOOLEAN,
          l \in Locations : toggleShoppingItem(u, t, i, b, l)
    \/ \E u \in TaskUsers : PersonalSnapshot(u)
    \/ \E u \in TaskUsers, c \in ChannelIds : ChannelTasksSnapshot(u, c)

SpecShop == InitTasks /\ [][NextShop]_vars

NextTasks ==
    \/ \E u \in TaskCallers, l \in Locations, in \in TaskInputs,
          d \in BOOLEAN, p \in {"public", "private"} :
          addTask(u, l, in[1], in[2], d, p)
    \/ \E u \in TaskCallers, t \in TaskIds, up \in TaskUpdates : updateTask(u, t, up)
    \/ \E u \in TaskCallers, t \in TaskIds, b \in BOOLEAN, l \in Locations :
          toggleTaskCompletion(u, t, b, l)
    \/ \E u \in TaskCallers, t \in TaskIds, i \in 1..MaxItems, b \in BOOLEAN,
          l \in Locations : toggleShoppingItem(u, t, i, b, l)
    \/ \E u \in TaskUsers, t \in TaskIds, ns \in Statuses : handleStatusChange(u, t, ns)
    \/ \E u \in TaskUsers : PersonalSnapshot(u)
    \/ \E u \in TaskUsers, c \in ChannelIds : ChannelTasksSnapshot(u, c)

SpecTasks == InitTasks /\ [][NextTasks]_vars

(* ------------------------------ Chat Store ----------------------------- *)
(* new Date() on the device of an identity: the device of u2 runs behind *)
deviceTime(u) == 2 * clock - (IF u = "u2" THEN 3 ELSE 0)

(* rules.txt, match /channels/{channelId}/messages/{messageId}: allow create *)
RulesAllowMessageCreate(u, c) ==
    /\ c \in ChannelIds
    /\ channels[c].exists
    /\ \/ u \in channels[c].members
       \/ u \in channels[c].admins
       \/ channels[c].createdBy = u

(* ChatProvider.sendMessage *)
ChatSendMessage(u, c) ==
    /\ IF u = NoUser
       THEN result' = "AuthRequired" /\ UNCHANGED <<messages, clock>>
       ELSE IF ~RulesAllowMessageCreate(u, c)
       THEN result' = "ProviderError" /\ UNCHANGED <<messages, clock>>
       ELSE /\ messages' = [messages EXCEPT ![c] = Append(@, deviceTime(u))]
            /\ clock' = clock + 1
            /\ result' = "ok"
    /\ setError("chat")
    /\ UNCHANGED <<channels, nextCode, joinedChannels, tasks, taskCache, startedBefore,
                   directMessages, chatView, dmView, sessions>>

(* The settled channel with its tasks and messages, and its deletion *)
NextDelete ==
    \/ \E u \in TaskCallers, l \in Locations, in \in TaskInputs :
          addTask(u, l, in[1], in[2], TRUE, "private")
    \/ \E u \in TaskCallers, c \in ChannelIds :
          Len(messages[c]) < MaxChat /\ ChatSendMessage(u, c)
    \/ \E u \in Callers, c \in ChannelIds : deleteChannel(u, c)

SpecDelete == InitTasks /\ [][NextDelete]_vars

(* ------------------------------ Chat window ---------------------------- *)
storeVars == <<channels, nextCode, joinedChannels, tasks, taskCache, result, startedBefore,
               messages, clock, directMessages, error, sessions>>
Viewer == "u1"                     \* currentUser of the viewing session

(* query(messagesRef, orderBy('createdAt', 'asc'), limit(100)) *)
ChannelMessagesQuery(c) ==
    LET ordered == SortSeq(messages[c], LAMBDA a, b : a < b)
    IN  SubSeq(ordered, 1, IF Len(ordered) < MessageLimit THEN Len(ordered) ELSE MessageLimit)

(* the cleanup of the ChatWindow effect, and the head of setupMessages *)
ChatCleanup(v) ==
    IF v.ref = NoView THEN v
    ELSE [v EXCEPT !.subs[v.ref] = @ - 1, !.ref = NoView]

(* the ChatWindow effect for channelId c up to its await: the previous     *)
(* effect's cleanup if mounted, then setupMessages and getChannelMessages  *)
ChatOpen(c) ==
    /\ chatView' = LET v == ChatCleanup(chatView)
                   IN  [v EXCEPT !.channelId = c,
                                 !.subs[c] = @ + 1,
                                 !.pending = Append(@, c)]
    /\ UNCHANGED <<storeVars, dmView>>

(* setupMessages resumes after its await: unsubscribeRef.current = unsubscribe *)
ChatResume ==
    /\ chatView.pending # <<>>
    /\ chatView' = [chatView EXCEPT !.ref = Head(chatView.pending),
                                    !.pending = Tail(@)]
    /\ UNCHANGED <<storeVars, dmView>>

(* the ChatWindow is unmounted: the effect's cleanup runs; a setupMessages *)
(* still awaiting will resume on the discarded instance                    *)
ChatClose ==
    /\ chatView.channelId # NoView
    /\ chatView' = [ChatCleanup(chatView) EXCEPT !.channelId = NoView, !.pending = <<>>]
    /\ UNCHANGED <<storeVars, dmView>>

(* the onSnapshot callback of a live listener on channel c: setMessages *)
ChatSnapshot(c) ==
    /\ chatView.subs[c] > 0
    /\ chatView' = [chatView EXCEPT !.log = ChannelMessagesQuery(c)]
    /\ UNCHANGED <<storeVars, dmView>>

(* A chat window opened once on the settled channel; u1 writes up to one   *)
(* message more than the query's limit, u2 joins in at the start           *)
NextChat ==
    \/ \E u \in TaskUsers, c \in ChannelIds :
          /\ Len(messages[c]) <= MessageLimit
          /\ u = "u1" \/ Len(messages[c]) < MaxChat
          /\ ChatSendMessage(u, c)
    \/ \E c \in ChannelIds : chatView.channelId = NoView /\ chatView.subs[c] = 0 /\ ChatOpen(c)
    \/ ChatResume
    \/ \E c \in ChannelIds : ChatSnapshot(c)

SpecChat == InitTasks /\ [][NextChat]_vars

(* ------------------------- Direct-message window ----------------------- *)
(* the query of getMessagesWithUser: the messages between cur and userId *)
ConversationQuery(cur, userId) ==
    SelectSeq(directMessages,
              LAMBDA m : /\ m[1] = cur \/ m[2] = cur
                         /\ m[1] = userId \/ m[2] = userId)

(* the query of the provider's own listener: every message of cur *)
OwnMessagesQuery(cur) ==
    SelectSeq(directMessages, LAMBDA m : m[1] = cur \/ m[2] = cur)

(* the DirectMessageWindow effect for userId: getMessagesWithUser; the     *)
(* function that would unsubscribe is returned inside the Promise executor *)
(* and dropped                                                             *)
DMOpen(userId) ==
    /\ dmView' = IF canMessageUser(Viewer, userId)
                 THEN [dmView EXCEPT !.userId = userId, !.subs[userId] = @ + 1]
                 ELSE [dmView EXCEPT !.userId = userId]
    /\ UNCHANGED <<storeVars, chatView>>

(* the DirectMessageWindow is unmounted: its effect has no cleanup *)
DMClose ==
    /\ dmView.userId # NoUser
    /\ dmView' = [dmView EXCEPT !.userId = NoUser]
    /\ UNCHANGED <<storeVars, chatView>>

(* the onSnapshot callback of a listener made by getMessagesWithUser *)
DMSnapshot(userId) ==
    /\ dmView.subs[userId] > 0
    /\ dmView' = [dmView EXCEPT !.log = ConversationQuery(Viewer, userId)]
    /\ UNCHANGED <<storeVars, chatView>>

(* the onSnapshot callback of the provider's own listener *)
DMProviderSnapshot ==
    /\ dmView' = [dmView EXCEPT !.log = OwnMessagesQuery(Viewer)]
    /\ UNCHANGED <<storeVars, chatView>>

(* The two conversation views of the viewing session over a store that    *)
(* holds a channel of all identities, one channel message and two direct   *)
(* messages                                                                *)
ViewChannel(c) ==
    IF c = 1 THEN Channel(TRUE, "u1", Users, {"u1"}, NoCode) ELSE NoChannel

InitView ==
    /\ channels = [c \in ChannelIds |-> ViewChannel(c)]
    /\ nextCode = 0
    /\ joinedChannels = [u \in Users |-> [c \in ChannelIds |-> ViewChannel(c)]]
    /\ tasks = [t \in TaskIds |-> NoTask]
    /\ taskCache = [u \in Users |-> [t \in TaskIds |-> NoTask]]
    /\ result = "ok"
    /\ startedBefore = [t \in TaskIds |-> FALSE]
    /\ messages = [c \in ChatChannelIds |-> IF c = 1 THEN <<4>> ELSE <<>>]
    /\ clock = 3
    /\ directMessages = << <<"u2", "u1">>, <<"u1", "u3">> >>
    /\ chatView = [channelId |-> NoView, ref |-> NoView, pending |-> <<>>,
                   subs |-> [c \in ChatChannelIds |-> 0], log |-> <<>>]
    /\ dmView = [userId |-> NoUser, subs |-> [t \in Users |-> 0], log |-> <<>>]
    /\ error = [s \in Stores |-> "null"]
    /\ taskView = NoTaskView
    /\ joinView = [joinLoading |-> NoView, pending |-> <<>>]
    /\ inflight = <<>>

ChatSubsTotal == chatView.subs[1] + chatView.subs[2]
DMSubsTotal == dmView.subs["u1"] + dmView.subs["u2"] + dmView.subs["u3"]

NextView ==
    \/ \E c \in ChatChannelIds : ChatSubsTotal < MaxSubs /\ ChatOpen(c)
    \/ ChatResume
    \/ ChatClose
    \/ \E c \in ChatChannelIds : ChatSnapshot(c)
    \/ \E t \in Users \ {Viewer} : DMSubsTotal < MaxSubs /\ DMOpen(t)
    \/ DMClose
    \/ \E t \in Users : DMSnapshot(t)
    \/ DMProviderSnapshot

SpecView == InitView /\ [][NextView]_vars

(* ------------------------- the four stores together -------------------- *)
(* The write operations of the four stores. A behaviour works on one of    *)
(* the stores while the other three rest in their initial state: an        *)
(* operation writes its own store and its own error state only.            *)
ChannelStoreIdle ==
    /\ channels = [c \in ChannelIds |-> SettledChannel(c)]
    /\ nextCode = 0
    /\ error["channel"] = "null"
TaskStoreIdle ==
    /\ tasks = [t \in TaskIds |-> NoTask]
    /\ taskCache = [u \in Users |-> [t \in TaskIds |-> NoTask]]
    /\ error["task"] = "null"
ChatStoreIdle == messages = [c \in ChatChannelIds |-> <<>>] /\ error["chat"] = "null"
DMStoreIdle == directMessages = <<>> /\ error["dm"] = "null"

ErrCallers == CacheCallers \cup {NoUser}

ChannelWrites ==
    \/ \E u \in ErrCallers, p \in BOOLEAN : createChannel(u, p)
    \/ \E u \in ErrCallers, c \in ChannelIds, up \in ChannelUpdates : updateChannel(u, c, up)
    \/ \E u \in ErrCallers, c \in ChannelIds : deleteChannel(u, c)
    \/ \E u \in ErrCallers, c \in ChannelIds : joinChannel(u, c)
    \/ \E u \in ErrCallers, c \in ChannelIds : leaveChannel(u, c)
    \/ \E u \in ErrCallers, k \in Codes : joinChannelByInviteCode(u, k)
    \/ \E u \in ErrCallers, c \in ChannelIds, t \in CacheCallers : addMemberToChannel(u, c, t)
    \/ \E u \in ErrCallers, c \in ChannelIds, t \in CacheCallers : removeMemberFromChannel(u, c, t)
    \/ \E u \in ErrCallers, c \in ChannelIds, t \in CacheCallers : promoteToAdmin(u, c, t)
    \/ \E u \in ErrCallers, c \in ChannelIds, t \in CacheCallers : demoteFromAdmin(u, c, t)
    \/ \E u \in ErrCallers, c \in ChannelIds : generateInviteCode(u, c)

TaskWrites ==
    \/ \E u \in ErrCallers, l \in Locations : addTask(u, l, "shopping", 1, TRUE, "private")
    \/ \E u \in ErrCallers, t \in TaskIds, up \in TaskUpdates : updateTask(u, t, up)
    \/ \E u \in ErrCallers, t \in TaskIds, l \in Locations : deleteTask(u, t, l)
    \/ \E u \in ErrCallers, t \in TaskIds, b \in BOOLEAN, l \in Locations :
          toggleTaskCompletion(u, t, b, l)
    \/ \E u \in ErrCallers, t \in TaskIds, b \in BOOLEAN, l \in Locations :
          toggleShoppingItem(u, t, 1, b, l)

ChatWrites ==
    \E u \in ErrCallers, c \in ChatChannelIds :
        Len(messages[c]) < MaxChat /\ ChatSendMessage(u, c)

DMWrites ==
    \E u \in ErrCallers, t \in CacheCallers :
        u # t /\ Len(directMessages) < MaxChat /\ DMSendMessage(u, t)

NextErr ==
    \/ TaskStoreIdle /\ ChatStoreIdle /\ DMStoreIdle /\ ChannelWrites
    \/ ChannelStoreIdle /\ ChatStoreIdle /\ DMStoreIdle /\ TaskWrites
    \/ ChannelStoreIdle /\ ChatStoreIdle /\ DMStoreIdle
          /\ \E u \in CacheCallers : PersonalSnapshot(u)
    \/ ChannelStoreIdle /\ TaskStoreIdle /\ DMStoreIdle /\ ChatWrites
    \/ ChannelStoreIdle /\ TaskStoreIdle /\ ChatStoreIdle /\ DMWrites

SpecErr == InitTasks /\ [][NextErr]_vars

(* ------------------------- TaskProvider session ------------------------ *)
(* The TaskProvider of one signed-in session, its listeners and the        *)
(* ChannelProvider state joinedChannels its effect depends on.             *)
TaskViewer == "u2"                 \* the identity that signs in to the session

(* the fields of a document of collection 'tasks' that the rules and the  *)
(* personal query look at                                                  *)
TaskDocs == [createdBy : Users, privacy : {"private", "public"}]

(* rules.txt, match /tasks/{taskId}: allow read *)
RulesAllowTaskRead(u, doc) == u # NoUser /\ doc.createdBy = u

(* or(where('createdBy', '==', uid), where('privacy', '==', 'public')) *)
personalTasksQuery(u, doc) == doc.createdBy = u \/ doc.privacy = "public"

(* the rule layer serves a query only if it allows the read of every       *)
(* document the query can match: rules are not filters                     *)
RulesAllowPersonalQuery(u) ==
    \A doc \in TaskDocs : personalTasksQuery(u, doc) => RulesAllowTaskRead(u, doc)

(* the cleanup of the TaskProvider effect: every unsubscribe callback of   *)
(* the previous run is called                                              *)
TaskCleanup(v) ==
    [v EXCEPT !.personal = 0, !.chan = [c \in ChannelIds |-> 0], !.failed = {}]

(* variant: the effect returns no cleanup *)
TaskEffectRun_noCleanup(u, v) ==
    [v EXCEPT !.user = u, !.dirty = FALSE,
              !.personal = @ + 1,
              !.chan = [c \in ChannelIds |->
                           @[c] + IF joinedChannels[u][c].exists THEN 1 ELSE 0]]

(* the TaskProvider effect for a signed-in identity u: the cleanup of the  *)
(* previous run, then onSnapshot on personalTasksQuery and on the tasks of *)
(* each channel of joinedChannels                                          *)
TaskEffectRun(u, v) ==
    [TaskCleanup(v) EXCEPT !.user = u, !.dirty = FALSE,
              !.personal = @ + 1,
              !.chan = [c \in ChannelIds |->
                           @[c] + IF joinedChannels[u][c].exists THEN 1 ELSE 0]]

(* currentUser becomes TaskViewer: the effects of the providers run *)
TaskSignIn ==
    /\ taskView.user = NoUser
    /\ taskView' = TaskEffectRun(TaskViewer, taskView)
    /\ UNCHANGED <<channels, nextCode, joinedChannels, tasks, taskCache, result,
                   startedBefore, messages, clock, directMessages, chatView, dmView, error,
                   joinView, inflight>>

(* currentUser becomes null: ChannelProvider sets joinedChannels to [],    *)
(* TaskProvider cleans up and sets tasks to []                             *)
TaskSignOut ==
    /\ taskView.user # NoUser
    /\ taskView' = [TaskCleanup(taskView) EXCEPT !.user = NoUser, !.dirty = FALSE]
    /\ joinedChannels' = [joinedChannels EXCEPT ![taskView.user] =
                              [c \in ChannelIds |-> NoChannel]]
    /\ taskCache' = [taskCache EXCEPT ![taskView.user] = [t \in TaskIds |-> NoTask]]
    /\ UNCHANGED <<channels, nextCode, tasks, result,
                   startedBefore, messages, clock, directMessages, chatView, dmView, error,
                   joinView, inflight>>

(* onSnapshot(joinedChannelsQuery) in the session: setJoinedChannels gives *)
(* the TaskProvider effect a new dependency                                *)
TaskJoinedSnapshot ==
    /\ taskView.user # NoUser
    /\ joinedChannels' = [joinedChannels EXCEPT ![taskView.user] =
           [c \in ChannelIds |->
               IF channels[c].exists /\ taskView.user \in channels[c].members
               THEN channels[c] ELSE NoChannel]]
    /\ taskView' = [taskView EXCEPT !.dirty = TRUE]
    /\ UNCHANGED <<channels, nextCode, tasks, taskCache, result,
                   startedBefore, messages, clock, directMessages, chatView, dmView, error,
                   joinView, inflight>>

(* the TaskProvider effect runs again after joinedChannels changed *)
TaskEffect ==
    /\ taskView.dirty
    /\ taskView' = TaskEffectRun(taskView.user, taskView)
    /\ UNCHANGED <<channels, nextCode, joinedChannels, tasks, taskCache, result,
                   startedBefore, messages, clock, directMessages, chatView, dmView, error,
                   joinView, inflight>>

(* the error callback of the personal listener: setError('Failed to fetch  *)
(* tasks'); a listener whose error callback has run delivers nothing more  *)
PersonalSnapshotError ==
    /\ taskView.personal > 0 /\ Personal \notin taskView.failed
    /\ taskView' = [taskView EXCEPT !.failed = @ \cup {Personal}]
    /\ error' = [error EXCEPT !["task"] = "Failed to fetch tasks"]
    /\ UNCHANGED <<channels, nextCode, joinedChannels, tasks, taskCache, result,
                   startedBefore, messages, clock, directMessages, chatView, dmView, joinView, inflight>>

(* the personal listener hears from the backend: its snapshot if the rule  *)
(* layer serves the query, its error otherwise                             *)
PersonalListen ==
    /\ taskView.personal > 0 /\ Personal \notin taskView.failed
    /\ IF RulesAllowPersonalQuery(taskView.user)
       THEN PersonalSnapshot(taskView.user)
       ELSE PersonalSnapshotError

(* the snapshot callback of the listener on the tasks of channel c *)
TaskChannelSnapshot(c) ==
    /\ taskView.chan[c] > 0 /\ c \notin taskView.failed
    /\ taskCache' = [taskCache EXCEPT ![taskView.user] = [t \in TaskIds |->
          IF tasks[t].exists /\ tasks[t].channelId = c
          THEN tasks[t]
          ELSE IF taskCache[taskView.user][t].exists
                  /\ taskCache[taskView.user][t].channelId # c
               THEN taskCache[taskView.user][t] ELSE NoTask]]
    /\ UNCHANGED <<channels, nextCode, joinedChannels, tasks, result>>
    /\ UNCHANGED <<startedBefore, others, error>>

(* the error callback of the listener on the tasks of channel c:           *)
(* console.error only                                                      *)
ChannelTasksSnapshotError(c) ==
    /\ taskView.chan[c] > 0 /\ c \notin taskView.failed
    /\ taskView' = [taskView EXCEPT !.failed = @ \cup {c}]
    /\ UNCHANGED <<channels, nextCode, joinedChannels, tasks, taskCache, result,
                   startedBefore, messages, clock, directMessages, chatView, dmView, error,
                   joinView, inflight>>

(* --------------------------- listener failures ------------------------ *)
(* The error callbacks of the listeners of the other three stores; the     *)
(* channel listeners are those of the TaskViewer session, the message      *)
(* listeners those of the Viewer session.                                  *)
ListenerError(store, msg) ==
    /\ error' = [error EXCEPT ![store] = msg]
    /\ UNCHANGED <<channels, nextCode, joinedChannels, tasks, taskCache, result,
                   startedBefore, messages, clock, directMessages, chatView, dmView,
                   sessions>>

(* onSnapshot(joinedChannelsQuery), error callback *)
JoinedSnapshotError ==
    taskView.user # NoUser /\ ListenerError("channel", "Failed to fetch channels")

(* onSnapshot(publicChannelsQuery), error callback *)
PublicSnapshotError ==
    taskView.user # NoUser /\ ListenerError("channel", "Failed to fetch public channels")

(* getChannelMessages, error callback of the listener on channel c *)
ChatSnapshotError(c) ==
    /\ chatView.subs[c] > 0
    /\ ListenerError("chat", "Failed to load messages. Please try again later.")

(* the error callback of the provider's own direct-message listener:       *)
(* setError(err.message)                                                   *)
DMProviderSnapshotError == ListenerError("dm", "ProviderError")

(* getMessagesWithUser, error callback: setError(err.message) and          *)
(* reject(err), which raises err in the caller awaiting the call if no     *)
(* snapshot of this listener has settled the promise before                *)
DMSnapshotError(userId) ==
    /\ dmView.subs[userId] > 0
    /\ error' = [error EXCEPT !["dm"] = "ProviderError"]
    /\ \E settled \in BOOLEAN : result' = IF settled THEN result ELSE "ProviderError"
    /\ UNCHANGED <<channels, nextCode, joinedChannels, tasks, taskCache,
                   startedBefore, messages, clock, directMessages, chatView, dmView,
                   sessions>>

(* The settled channel before the TaskViewer session signs in: the         *)
(* ChannelProvider of a session without identity holds no channel          *)
InitSession ==
    /\ channels = [c \in ChannelIds |-> SettledChannel(c)]
    /\ nextCode = 0
    /\ joinedChannels = [u \in Users |-> [c \in ChannelIds |->
          IF u \in SettledChannel(c).members \ {TaskViewer}
          THEN SettledChannel(c) ELSE NoChannel]]
    /\ tasks = [t \in TaskIds |-> NoTask]
    /\ taskCache = [u \in Users |-> [t \in TaskIds |-> NoTask]]
    /\ result = "ok"
    /\ startedBefore = [t \in TaskIds |-> FALSE]
    /\ messages = [c \in ChatChannelIds |-> <<>>]
    /\ clock = 2
    /\ directMessages = <<>>
    /\ chatView = [channelId |-> NoView, ref |-> NoView, pending |-> <<>>,
                   subs |-> [c \in ChatChannelIds |-> 0], log |-> <<>>]
    /\ dmView = [userId |-> NoUser, subs |-> [t \in Users |-> 0], log |-> <<>>]
    /\ error = [s \in Stores |-> "null"]
    /\ taskView = NoTaskView
    /\ joinView = [joinLoading |-> NoView, pending |-> <<>>]
    /\ inflight = <<>>

(* Every listener of the four stores and its failure *)
NextListen ==
    \/ TaskSignIn
    \/ TaskSignOut
    \/ TaskJoinedSnapshot
    \/ TaskEffect
    \/ JoinedSnapshotError
    \/ PublicSnapshotError
    \/ PersonalSnapshotError
    \/ \E c \in ChannelIds : TaskChannelSnapshot(c)
    \/ \E c \in ChannelIds : ChannelTasksSnapshotError(c)
    \/ \E c \in ChannelIds : chatView.channelId = NoView /\ chatView.subs[c] = 0 /\ ChatOpen(c)
    \/ ChatResume
    \/ \E c \in ChannelIds : ChatSnapshotError(c)
    \/ \E t \in TaskUsers \ {Viewer} : DMSubsTotal = 0 /\ DMOpen(t)
    \/ \E t \in Users : DMSnapshotError(t)
    \/ DMProviderSnapshotError

SpecListen == InitSession /\ [][NextListen]_vars

(* ------------------------------ Channels page ------------------------- *)
Joiner == "u3"                     \* currentUser of the session showing the page

Remove(seq, i) == SubSeq(seq, 1, i - 1) \o SubSeq(seq, i + 1, Len(seq))

(* handleJoinChannel up to its await; the Join button of channel c is      *)
(* disabled while joinLoading === c                                        *)
ClickJoin(c) ==
    /\ joinView.joinLoading # c
    /\ joinView' = [joinLoading |-> c, pending |-> Append(joinView.pending, <<"channel", c>>)]
    /\ UNCHANGED <<channels, nextCode, joinedChannels, tasks, taskCache, result,
                   startedBefore, messages, clock, directMessages, chatView, dmView, error,
                   taskView, inflight>>

(* handleJoinPrivate up to its await; the form's submit button is never    *)
(* disabled                                                                *)
SubmitInviteCode(code) ==
    /\ joinView' = [joinView EXCEPT !.pending = Append(@, <<"code", code>>)]
    /\ UNCHANGED <<channels, nextCode, joinedChannels, tasks, taskCache, result,
                   startedBefore, messages, clock, directMessages, chatView, dmView, error,
                   taskView, inflight>>

(* the store operation of the i-th pending submission runs and the handler *)
(* resumes: finally { setJoinLoading(null) } after joinChannel             *)
JoinCompletes(i) ==
    /\ i \in DOMAIN joinView.pending
    /\ LET sub == joinView.pending[i]
       IN  IF sub[1] = "channel"
           THEN /\ joinChannelVia(Joiner, sub[2], TRUE)
                /\ joinView' = [joinLoading |-> NoView, pending |-> Remove(joinView.pending, i)]
           ELSE /\ joinChannelByInviteCodeVia(Joiner, sub[2], TRUE)
                /\ joinView' = [joinView EXCEPT !.pending = Remove(@, i)]

(* The Channels page of u3 over the settled channel *)
NextPage ==
    \/ \E c \in ChannelIds : Len(joinView.pending) < MaxPending /\ ClickJoin(c)
    \/ \E k \in Codes : Len(joinView.pending) < MaxPending /\ SubmitInviteCode(k)
    \/ \E i \in 1..MaxPending : JoinCompletes(i)
    \/ \E c \in ChannelIds : leaveChannel(Joiner, c)
    \/ \E c \in ChannelIds : generateInviteCode("u1", c)

SpecPage == InitTasks /\ [][NextPage]_vars

(* ------------------------------ rule layer ---------------------------- *)
(* A client that calls the backend directly, past the checks of the Channel *)
(* Store: its writes meet the rules only.                                  *)
(* the document an update with the given fields would leave *)
Merged(doc, fields) ==
    [f \in DOMAIN doc |-> IF f \in DOMAIN fields THEN fields[f] ELSE doc[f]]

(* request.resource.data.diff(resource.data).affectedKeys() *)
affectedKeys(new, old) == {f \in DOMAIN old : new[f] # old[f]}

(* rules.txt, match /channels/{channelId}: allow update; && binds tighter  *)
(* than ||                                                                 *)
RulesAllowChannelUpdate(u, c, fields) ==
    LET resource == channels[c]
        request == Merged(channels[c], fields)
    IN  /\ u # NoUser
        /\ resource.exists
        /\ \/ resource.createdBy = u
           \/ u \in resource.admins
           \/ (~resource.isPublic /\ resource.inviteCode = request.inviteCode)
           \/ /\ (resource.isPublic = TRUE \/ u \in resource.members)
              /\ affectedKeys(request, resource) \subseteq {"members"}

(* updateDoc(doc(db, 'channels', c), fields) sent by the client of u *)
DirectUpdate(u, c, fields) ==
    /\ IF RulesAllowChannelUpdate(u, c, fields)
       THEN updateDoc(c, fields) /\ result' = "ok"
       ELSE UNCHANGED channels /\ result' = "ProviderError"
    /\ UNCHANGED <<nextCode, joinedChannels, tasks, taskCache, startedBefore, error, others>>

(* the updates a client tries for itself: to become a member, an admin or  *)
(* the creator, to open the channel, and the same while giving a code      *)
DirectFields(u, c) ==
    LET grabs == {[members |-> arrayUnion(channels[c].members, u)],
                  [admins |-> arrayUnion(channels[c].admins, u)],
                  [members |-> arrayUnion(channels[c].members, u),
                   admins |-> arrayUnion(channels[c].admins, u)],
                  [createdBy |-> u],
                  [isPublic |-> TRUE]}
    IN  grabs \cup {[inviteCode |-> k] : k \in Codes}
              \cup {[members |-> arrayUnion(channels[c].members, u), inviteCode |-> k] :
                       k \in Codes}

(* channel 1 is private, created by u1 and joined by u2 with its code *)
PrivateChannel(c) ==
    IF c = 1 THEN Channel(FALSE, "u1", {"u1", "u2"}, {"u1"}, 1) ELSE NoChannel

InitRules ==
    /\ channels = [c \in ChannelIds |-> PrivateChannel(c)]
    /\ nextCode = 1
    /\ joinedChannels = [u \in Users |-> [c \in ChannelIds |->
          IF u \in PrivateChannel(c).members THEN PrivateChannel(c) ELSE NoChannel]]
    /\ tasks = [t \in TaskIds |-> NoTask]
    /\ taskCache = [u \in Users |-> [t \in TaskIds |-> NoTask]]
    /\ result = "ok"
    /\ startedBefore = [t \in TaskIds |-> FALSE]
    /\ messages = [c \in ChatChannelIds |-> <<>>]
    /\ clock = 2
    /\ directMessages = <<>>
    /\ chatView = [channelId |-> NoView, ref |-> NoView, pending |-> <<>>,
                   subs |-> [c \in ChatChannelIds |-> 0], log |-> <<>>]
    /\ dmView = [userId |-> NoUser, subs |-> [t \in Users |-> 0], log |-> <<>>]
    /\ error = [s \in Stores |-> "null"]
    /\ taskView = NoTaskView
    /\ joinView = [joinLoading |-> NoView, pending |-> <<>>]
    /\ inflight = <<>>

(* The private channel, its members' operations and the direct writes of   *)
(* every identity                                                          *)
NextRules ==
    \/ \E u \in Callers, c \in ChannelIds :
          \E f \in DirectFields(u, c) : DirectUpdate(u, c, f)
    \/ \E u \in Users, c \in ChannelIds : leaveChannel(u, c)
    \/ \E c \in ChannelIds, t \in Users : removeMemberFromChannel("u1", c, t)
    \/ \E c \in ChannelIds : generateInviteCode("u1", c)
    \/ \E u \in Users, k \in Codes : joinChannelByInviteCode(u, k)

SpecRules == InitRules /\ [][NextRules]_vars

(* --------------------------- channel page gates ----------------------- *)
(* ChannelDetails: isCreator || isAdmin || isMember *)
canAddTasks(u, c) ==
    \/ u = channels[c].createdBy
    \/ u \in channels[c].admins
    \/ u \in channels[c].members

(* ChannelDetails.canDeleteTask(task) *)
canDeleteTask(u, c, id) ==
    \/ u = channels[c].createdBy
    \/ u \in channels[c].admins
    \/ tasks[id].createdBy = u
    \/ u \in channels[c].members

(* rules.txt, match /channels/{channelId}/tasks/{taskId}: allow delete *)
RulesAllowChannelTaskDelete(u, c, id) ==
    /\ u # NoUser
    /\ \/ tasks[id].createdBy = u
       \/ u \in channels[c].admins
       \/ channels[c].createdBy = u

(* the Add Task button of the channel page, shown if canAddTasks, and      *)
(* handleAddTask                                                           *)
PageAddTask(u, c) ==
    canAddTasks(u, c) /\ addTask(u, c, "regular", 0, TRUE, "private")

(* the delete button of a task of the channel page, shown if               *)
(* canDeleteTask(task), and handleDeleteTask                               *)
PageDeleteTask(u, c, id) ==
    /\ tasks[id].exists /\ tasks[id].channelId = c
    /\ canDeleteTask(u, c, id)
    /\ deleteTask(u, id, c)

(* The channel page of every identity while the membership changes *)
NextGates ==
    \/ \E u \in Users, c \in ChannelIds : PageAddTask(u, c)
    \/ \E u \in Users, c \in ChannelIds, t \in TaskIds : PageDeleteTask(u, c, t)
    \/ \E u \in Users, c \in ChannelIds : joinChannel(u, c)
    \/ \E u \in Users, c \in ChannelIds : leaveChannel(u, c)
    \/ \E c \in ChannelIds, t \in Users : promoteToAdmin("u1", c, t)
    \/ \E c \in ChannelIds, t \in Users : demoteFromAdmin("u1", c, t)

SpecGates == InitTasks /\ [][NextGates]_vars

(* ----------------------- operations in two steps ---------------------- *)
(* promoteToAdmin up to its write: getDoc and the checks on the document   *)
(* it returned; a failed check ends the call                               *)
PromoteFetch(u, c, userId) ==
    IF u = NoUser THEN Throw("AuthRequired")
    ELSE IF ~channels[c].exists THEN Throw("NotFound")
    ELSE IF channels[c].createdBy # u THEN Throw("NotCreator")
    ELSE IF userId \notin channels[c].members THEN Throw("NotAMember")
    ELSE /\ inflight' = Append(inflight, <<u, c, userId>>)
         /\ error' = [error EXCEPT !["channel"] = "null"]
         /\ UNCHANGED <<channels, nextCode, joinedChannels, tasks, taskCache, result,
                        startedBefore, messages, clock, directMessages, chatView, dmView,
                        taskView, joinView>>

(* the write of the i-th call in flight: updateDoc(channelRef, { admins:   *)
(* arrayUnion(userId) }) on the document as it is now                      *)
PromoteWrite(i) ==
    /\ i \in DOMAIN inflight
    /\ LET u == inflight[i][1]
           c == inflight[i][2]
           userId == inflight[i][3]
       IN  IF channels[c].exists /\ RulesAllowChannelUpdate(u, c,
                                       [admins |-> arrayUnion(channels[c].admins, userId)])
           THEN /\ updateDoc(c, [admins |-> arrayUnion(channels[c].admins, userId)])
                /\ result' = "ok"
           ELSE /\ UNCHANGED channels
                /\ result' = "ProviderError"
    /\ setError("channel")
    /\ inflight' = Remove(inflight, i)
    /\ UNCHANGED <<nextCode, joinedChannels, tasks, taskCache,
                   startedBefore, messages, clock, directMessages, chatView, dmView,
                   taskView, joinView>>

(* The creator promotes in two steps while the others join, leave and are  *)
(* removed                                                                 *)
NextRace ==
    \/ \E c \in ChannelIds, t \in Users :
          Len(inflight) < MaxPending /\ PromoteFetch("u1", c, t)
    \/ \E i \in 1..MaxPending : PromoteWrite(i)
    \/ \E u \in Users, c \in ChannelIds : joinChannel(u, c)
    \/ \E u \in Users, c \in ChannelIds : leaveChannel(u, c)
    \/ \E c \in ChannelIds, t \in Users : removeMemberFromChannel("u1", c, t)
    \/ \E c \in ChannelIds, t \in Users : demoteFromAdmin("u1", c, t)

SpecRace == InitTasks /\ [][NextRace]_vars

(* The TaskViewer session over the settled channel: it signs in and out,   *)
(* leaves and joins the channel, and the members add tasks                 *)
NextSession ==
    \/ TaskSignIn
    \/ TaskSignOut
    \/ TaskJoinedSnapshot
    \/ TaskEffect
    \/ PersonalListen
    \/ \E c \in ChannelIds : TaskChannelSnapshot(c)
    \/ \E c \in ChannelIds : leaveChannel(TaskViewer, c)
    \/ \E c \in ChannelIds : joinChannel(TaskViewer, c)
    \/ \E u \in TaskUsers, l \in Locations, privacy \in {"private", "public"} :
          addTask(u, l, "regular", 0, TRUE, privacy)
    \/ \E u \in TaskUsers, t \in TaskIds, l \in Locations : deleteTask(u, t, l)

SpecSession == InitSession /\ [][NextSession]_vars

(* React runs a pending effect and the backend delivers to every listener  *)
(* that stays registered                                                   *)
SpecSessionFair ==
    /\ SpecSession
    /\ WF_vars(TaskEffect)
    /\ WF_vars(TaskJoinedSnapshot)
    /\ WF_vars(PersonalListen)
    /\ \A c \in ChannelIds : WF_vars(TaskChannelSnapshot(c))

(* =============================== claims ================================ *)

(* C1: in every reachable state of the Channel Store every existing        *)
(* channel has its creator among its admins and its admins among its       *)
(* members.                                                                *)
C1_RoleInvariant ==
    \A c \in ChannelIds : channels[c].exists =>
        /\ channels[c].createdBy \in channels[c].admins
        /\ channels[c].admins \subseteq channels[c].members

(* a channel with a promoted admin besides its creator and a plain member *)
C1_Witness ==
    \E c \in ChannelIds :
        /\ channels[c].exists
        /\ Cardinality(channels[c].admins) = 2
        /\ Cardinality(channels[c].members) = 3

(* C2: leaveChannel by the creator fails with CreatorCannotLeave and       *)
(* changes neither members nor admins; by any other member it removes the  *)
(* caller from members and from admins.                                    *)
C2_LeaveChannel ==
    [][\A u \in Users, c \in ChannelIds :
         (channels[c].exists /\ leaveChannel(u, c)) =>
            IF channels[c].createdBy = u
            THEN /\ result' = "CreatorCannotLeave"
                 /\ channels'[c].members = channels[c].members
                 /\ channels'[c].admins = channels[c].admins
            ELSE u \in channels[c].members =>
                 /\ result' = "ok"
                 /\ channels'[c].members = channels[c].members \ {u}
                 /\ channels'[c].admins = channels[c].admins \ {u}]_vars

(* the creator's leaveChannel has just been rejected *)
C2_Witness ==
    /\ result = "CreatorCannotLeave"
    /\ \E c \in ChannelIds : channels[c].exists /\ Cardinality(channels[c].members) > 1

(* C5: joinChannelByInviteCode with a code no channel holds fails with     *)
(* InvalidCode and changes no channel; with the code of a channel the      *)
(* caller is in it fails with AlreadyMember and changes no channel; with   *)
(* the code of a private channel the caller is not in it adds the caller   *)
(* to that channel's members and changes nothing else.                     *)
C5_JoinByInviteCode ==
    [][\A u \in Users, k \in Codes :
         joinChannelByInviteCode(u, k) =>
            LET held == {c \in ChannelIds : channels[c].exists /\ channels[c].inviteCode = k}
            IN  /\ (held = {} => result' = "InvalidCode" /\ channels' = channels)
                /\ \A c \in held :
                     /\ (u \in channels[c].members =>
                            result' = "AlreadyMember" /\ channels' = channels)
                     /\ (u \notin channels[c].members /\ ~channels[c].isPublic) =>
                            /\ result' = "ok"
                            /\ channels' = [channels EXCEPT
                                   ![c].members = channels[c].members \cup {u}]]_vars

(* a join by an unknown code has just been rejected while a private        *)
(* channel holds another code and has a member who joined it               *)
C5_Witness ==
    /\ result = "InvalidCode"
    /\ \E c \in ChannelIds :
         /\ channels[c].exists /\ ~channels[c].isPublic
         /\ channels[c].inviteCode # NoCode
         /\ channels[c].members # {channels[c].createdBy}

(* C7: on a public channel C created by U1, joinChannel(C) by a            *)
(* non-member U2 puts U2 in members and not in admins; promoteToAdmin(C,   *)
(* U2) by U1 then puts U2 in admins; removeMemberFromChannel(C, U1) by U1  *)
(* fails and changes neither members nor admins.                           *)
C7_Scenario ==
    [][\A U1 \in Users, U2 \in Users, c \in ChannelIds :
         (/\ U1 # U2 /\ channels[c].exists
          /\ channels[c].isPublic /\ channels[c].createdBy = U1) =>
            /\ ((joinChannel(U2, c) /\ channels[c].members = {U1}) =>
                   /\ result' = "ok"
                   /\ U2 \in channels'[c].members
                   /\ U2 \notin channels'[c].admins)
            /\ ((promoteToAdmin(U1, c, U2) /\ U2 \in channels[c].members) =>
                   /\ result' = "ok"
                   /\ U2 \in channels'[c].admins)
            /\ (removeMemberFromChannel(U1, c, U1) =>
                   /\ result' = "CannotRemoveCreator"
                   /\ channels'[c].members = channels[c].members
                   /\ channels'[c].admins = channels[c].admins)]_vars

(* the end of the scenario: U2 joined and was promoted, and the removal of *)
(* the creator has just been rejected                                      *)
C7_Witness ==
    /\ result = "CannotRemoveCreator"
    /\ \E c \in ChannelIds :
         /\ channels[c].exists /\ channels[c].isPublic
         /\ channels[c].createdBy = "u1"
         /\ channels[c].members = {"u1", "u2"}
         /\ channels[c].admins = {"u1", "u2"}

(* C9: when generateInviteCode replaces the code K1 of a private channel   *)
(* by K2, K2 differs from K1, a join with K1 fails with InvalidCode for    *)
(* every identity, and a join with K2 by a non-member succeeds on that     *)
(* channel; every join with a code no channel holds changes no membership, *)
(* and a generated code that no channel holds is never held again.         *)
C9_InviteCodeRegenerated ==
    [][\A u \in Users, c \in ChannelIds :
         /\ \A K1 \in Codes, K2 \in Codes \cup {NoCode} :
               (/\ channels[c].exists /\ ~channels[c].isPublic
                /\ channels[c].inviteCode = K1
                /\ generateInviteCode(u, c) /\ result' = "ok"
                /\ channels'[c].inviteCode = K2) =>
                   /\ K2 # K1 /\ K2 # NoCode
                   /\ \A v \in Users :
                        /\ joinByCodeOutcome(v, K1)' = "InvalidCode"
                        /\ (v \notin channels[c].members =>
                              /\ joinByCodeOutcome(v, K2)' = "ok"
                              /\ FirstMatch(K2)' = c)
         /\ \A k \in Codes :
               /\ ((joinChannelByInviteCode(u, k) /\ result' = "InvalidCode") =>
                      channels' = channels)
               /\ ((k <= nextCode /\ CodeMatches(k) = {}) => CodeMatches(k)' = {})]_vars

(* a private channel holds its second code and a join with a replaced code *)
(* has just been rejected                                                  *)
C9_Witness ==
    /\ result = "InvalidCode"
    /\ nextCode >= 2
    /\ \E c \in ChannelIds :
         /\ channels[c].exists /\ ~channels[c].isPublic
         /\ channels[c].inviteCode = nextCode

(* C6: canMessageUser is symmetric and equals "some channel of the backing *)
(* store has both identities among its members".                           *)
C6_CanMessageSymmetricExact ==
    \A a \in Users, b \in Users :
        a # b =>
          /\ canMessageUser(a, b) = canMessageUser(b, a)
          /\ canMessageUser(a, b) =
                (\E c \in ChannelIds : /\ channels[c].exists
                                        /\ a \in channels[c].members
                                        /\ b \in channels[c].members)

(* C3: after any sequence of toggleShoppingItem calls a stored shopping    *)
(* task has status completed iff every item is completed, not_started iff  *)
(* no item is completed, in_progress otherwise, and completed iff its      *)
(* status is completed.                                                    *)
StatusDerived(task) ==
    /\ (task.status = "completed") = every(task.shoppingItems)
    /\ (task.status = "not_started") = ~some(task.shoppingItems)
    /\ (task.status = "in_progress") =
          (some(task.shoppingItems) /\ ~every(task.shoppingItems))
    /\ task.completed = (task.status = "completed")

C3_ShoppingStatusDerived ==
    \A t \in TaskIds :
        (tasks[t].exists /\ tasks[t].type = "shopping") => StatusDerived(tasks[t])

(* C3 as amended: the same for every stored shopping task that has at      *)
(* least one item.                                                         *)
C3_ShoppingStatusDerivedNonEmpty ==
    \A t \in TaskIds :
        (/\ tasks[t].exists /\ tasks[t].type = "shopping"
         /\ Len(tasks[t].shoppingItems) >= 1) => StatusDerived(tasks[t])

(* a toggle has just been written that leaves some but not all items       *)
(* completed, while an identity's cached copy lags the stored task         *)
C3_Witness ==
    /\ result = "ok"
    /\ \E t \in TaskIds, u \in Users :
         /\ tasks[t].exists /\ tasks[t].type = "shopping"
         /\ some(tasks[t].shoppingItems) /\ ~every(tasks[t].shoppingItems)
         /\ taskCache[u][t].exists
         /\ every(taskCache[u][t].shoppingItems)

(* C4: a toggleTaskCompletion(id, c) that succeeds on a stored shopping    *)
(* task leaves every stored item with completed = c, the task's completed  *)
(* flag equal to c and its status completed exactly when c.                *)
C4_ToggleCompletionForcesItems ==
    [][\A u \in Users, t \in TaskIds, c \in BOOLEAN, l \in Locations :
         (/\ tasks[t].exists /\ tasks[t].type = "shopping"
          /\ toggleTaskCompletion(u, t, c, l) /\ result' = "ok") =>
             /\ \A i \in DOMAIN tasks'[t].shoppingItems : tasks'[t].shoppingItems[i] = c
             /\ tasks'[t].completed = c
             /\ (tasks'[t].status = "completed") = c]_vars

(* C8: on a stored shopping task with two items, a successful toggle of    *)
(* the first item to completed while none is completed stores status       *)
(* in_progress and completed = false, and a following successful toggle of *)
(* the second item stores both items completed, status completed and       *)
(* completed = true.                                                       *)
C8_MilkThenEggs ==
    [][\A u \in Users, t \in TaskIds, l \in Locations :
         (tasks[t].exists /\ tasks[t].type = "shopping") =>
            /\ (/\ tasks[t].shoppingItems = <<FALSE, FALSE>>
                /\ toggleShoppingItem(u, t, 1, TRUE, l) /\ result' = "ok") =>
                   /\ tasks'[t].shoppingItems = <<TRUE, FALSE>>
                   /\ tasks'[t].status = "in_progress"
                   /\ ~tasks'[t].completed
            /\ (/\ tasks[t].shoppingItems = <<TRUE, FALSE>>
                /\ toggleShoppingItem(u, t, 2, TRUE, l) /\ result' = "ok") =>
                   /\ tasks'[t].shoppingItems = <<TRUE, TRUE>>
                   /\ tasks'[t].status = "completed"
                   /\ tasks'[t].completed]_vars

(* C10: every stored task has completed = true iff its status is           *)
(* completed.                                                              *)
C10_CompletedIffStatusCompleted ==
    \A t \in TaskIds :
        tasks[t].exists => (tasks[t].completed = (tasks[t].status = "completed"))

(* C11: every existing channel holds an invite code exactly when it is     *)
(* private.                                                                *)
C11_CodeIffPrivate ==
    \A c \in ChannelIds :
        channels[c].exists => ((channels[c].inviteCode # NoCode) = ~channels[c].isPublic)

(* C12: a successful toggleTaskCompletion(id, false) on a stored regular   *)
(* task that is completed stores status in_progress if the task's status   *)
(* was in_progress when it was completed and not_started otherwise; a      *)
(* successful toggleTaskCompletion(id, true) stores status completed.      *)
C12_UncompleteRevertsStatus ==
    [][\A u \in Users, t \in TaskIds, l \in Locations :
         (tasks[t].exists /\ tasks[t].type = "regular") =>
            /\ (/\ tasks[t].status = "completed"
                /\ toggleTaskCompletion(u, t, FALSE, l) /\ result' = "ok") =>
                   tasks'[t].status = IF startedBefore[t] THEN "in_progress"
                                      ELSE "not_started"
            /\ (toggleTaskCompletion(u, t, TRUE, l) /\ result' = "ok") =>
                   tasks'[t].status = "completed"]_vars

(* C13: toggleShoppingItem with an item id that is neither on the stored   *)
(* shopping task nor on the caller's cached copy of it fails with          *)
(* ItemNotFound and leaves the stored task as it was.                      *)
C13_ItemNotFound ==
    [][\A u \in Users, t \in TaskIds, i \in 1..MaxItems, b \in BOOLEAN, l \in Locations :
         (/\ tasks[t].exists /\ tasks[t].type = "shopping"
          /\ taskCache[u][t].exists
          /\ i \notin DOMAIN tasks[t].shoppingItems
          /\ i \notin DOMAIN taskCache[u][t].shoppingItems
          /\ toggleShoppingItem(u, t, i, b, l)) =>
             /\ result' = "ItemNotFound"
             /\ tasks' = tasks]_vars

(* C14: promoteToAdmin and demoteFromAdmin called by an identity other     *)
(* than the channel's creator fail and leave admins unchanged; called by   *)
(* the creator, promoteToAdmin fails with NotAMember for a target outside  *)
(* members and otherwise adds the target to admins, demoteFromAdmin fails  *)
(* with CannotDemoteCreator for the creator and otherwise removes the      *)
(* target from admins; every failure leaves the channel unchanged.         *)
C14_PromoteDemoteCreatorOnly ==
    [][\A u \in Users, c \in ChannelIds, t \in Users :
         channels[c].exists =>
            /\ (promoteToAdmin(u, c, t) =>
                  IF u # channels[c].createdBy
                  THEN result' # "ok" /\ channels' = channels
                  ELSE IF t \notin channels[c].members
                  THEN result' = "NotAMember" /\ channels' = channels
                  ELSE /\ result' = "ok"
                       /\ channels'[c].admins = channels[c].admins \cup {t})
            /\ (demoteFromAdmin(u, c, t) =>
                  IF u # channels[c].createdBy
                  THEN result' # "ok" /\ channels' = channels
                  ELSE IF t = channels[c].createdBy
                  THEN result' = "CannotDemoteCreator" /\ channels' = channels
                  ELSE /\ result' = "ok"
                       /\ channels'[c].admins = channels[c].admins \ {t})]_vars

(* a promotion or demotion has just been refused for want of being the     *)
(* creator, in a channel that has an admin besides its creator             *)
C14_Witness ==
    /\ result = "NotCreator"
    /\ \E c \in ChannelIds : channels[c].exists /\ Cardinality(channels[c].admins) >= 2

(* C15: after a successful deleteChannel(C) the backing store holds        *)
(* neither channel C nor a task or a message scoped to C; a deleteChannel  *)
(* by an identity other than the creator fails and removes nothing.        *)
C15_DeleteChannelCascades ==
    [][\A u \in Users, c \in ChannelIds :
         (channels[c].exists /\ deleteChannel(u, c)) =>
            IF u = channels[c].createdBy
            THEN /\ result' = "ok"
                 /\ ~channels'[c].exists
                 /\ \A t \in TaskIds : ~(tasks'[t].exists /\ tasks'[t].channelId = c)
                 /\ messages'[c] = <<>>
            ELSE /\ result' # "ok"
                 /\ channels' = channels /\ tasks' = tasks /\ messages' = messages]_vars

(* C16: the outcome of every Channel Store mutation that checks            *)
(* authorization is the same before and after a step that changes the      *)
(* locally cached channel list only; so any two reachable states with the  *)
(* same backing store give every such mutation the same outcome.           *)
Results == {"ok", "AuthRequired", "NotFound", "NotAdmin", "NotCreator", "AlreadyMember",
            "CreatorCannotLeave", "CannotRemoveCreator", "NotAMember",
            "CannotDemoteCreator"}

C16_OutcomeIgnoresCache ==
    [][JoinedSnapshot("u2") =>
         \A u \in CacheCallers, c \in ChannelIds, r \in Results :
            /\ \A up \in ChannelUpdates :
                  (ENABLED (updateChannel(u, c, up) /\ result' = r))'
                     = ENABLED (updateChannel(u, c, up) /\ result' = r)
            /\ (ENABLED (deleteChannel(u, c) /\ result' = r))'
                  = ENABLED (deleteChannel(u, c) /\ result' = r)
            /\ (ENABLED (joinChannel(u, c) /\ result' = r))'
                  = ENABLED (joinChannel(u, c) /\ result' = r)
            /\ (ENABLED (leaveChannel(u, c) /\ result' = r))'
                  = ENABLED (leaveChannel(u, c) /\ result' = r)
            /\ (ENABLED (generateInviteCode(u, c) /\ result' = r))'
                  = ENABLED (generateInviteCode(u, c) /\ result' = r)
            /\ \A t \in CacheCallers :
                  /\ (ENABLED (addMemberToChannel(u, c, t) /\ result' = r))'
                        = ENABLED (addMemberToChannel(u, c, t) /\ result' = r)
                  /\ (ENABLED (removeMemberFromChannel(u, c, t) /\ result' = r))'
                        = ENABLED (removeMemberFromChannel(u, c, t) /\ result' = r)
                  /\ (ENABLED (promoteToAdmin(u, c, t) /\ result' = r))'
                        = ENABLED (promoteToAdmin(u, c, t) /\ result' = r)
                  /\ (ENABLED (demoteFromAdmin(u, c, t) /\ result' = r))'
                        = ENABLED (demoteFromAdmin(u, c, t) /\ result' = r)]_vars

(* a mutation has just succeeded while the cached channel of u2 is stale:  *)
(* the store has u2 among the admins, the cached copy does not             *)
C16_Witness ==
    /\ result = "ok"
    /\ \E c \in ChannelIds :
         /\ channels[c].exists /\ "u2" \in channels[c].admins
         /\ joinedChannels["u2"][c].exists
         /\ "u2" \notin joinedChannels["u2"][c].admins

(* C17: a direct-message sendMessage from u to t appends a message only if *)
(* at that time some channel of the backing store has both u and t among   *)
(* its members; otherwise it fails with NotPermitted and appends nothing.  *)
C17_DirectMessageNeedsSharedChannel ==
    [][\A u \in DMUsers, t \in DMUsers :
         (u # t /\ DMSendMessage(u, t)) =>
            LET shared == \E c \in ChannelIds : /\ channels[c].exists
                                                /\ u \in channels[c].members
                                                /\ t \in channels[c].members
            IN  /\ (directMessages' # directMessages => shared)
                /\ (~shared => result' = "NotPermitted")]_vars

(* C18: the log a snapshot of getChannelMessages(c) delivers replaces the  *)
(* in-memory log and is, in ascending order of creation time, all messages *)
(* of the channel if there are at most 100 and the 100 most recent ones    *)
(* otherwise.                                                              *)
C18_LogIsMostRecentHundred ==
    [][\A c \in ChannelIds :
         ChatSnapshot(c) =>
            LET all == SortSeq(messages[c], LAMBDA a, b : a < b)
                n == Len(all)
            IN  chatView'.log = IF n <= 100 THEN all ELSE SubSeq(all, n - 99, n)]_vars

(* C19: each conversation view has at most one live message listener, none *)
(* when the view is closed and none on a conversation other than the one   *)
(* that is open.                                                           *)
C19_OneLiveSubscription ==
    /\ ChatSubsTotal <= 1
    /\ \A c \in ChatChannelIds : chatView.subs[c] > 0 => chatView.channelId = c
    /\ DMSubsTotal <= 1
    /\ \A t \in Users : dmView.subs[t] > 0 => dmView.userId = t

(* C20: a write operation of the Channel, Task, chat or direct-message     *)
(* store that fails raises its failure to the caller, leaves the message   *)
(* of that failure in the error state of its store and writes nothing to   *)
(* the backing store; one that returns normally leaves no error there.     *)
C20_FailureRecordedAndReraised ==
    [][LET Propagates(store) ==
               /\ result' # "ok" =>
                     /\ error'[store] = result'
                     /\ UNCHANGED <<channels, nextCode, tasks, messages, directMessages>>
               /\ result' = "ok" => error'[store] = "null"
       IN  /\ ChannelWrites => Propagates("channel")
           /\ TaskWrites => Propagates("task")
           /\ ChatWrites => Propagates("chat")
           /\ DMWrites => Propagates("dm")]_vars

(* a join by a member has failed: the message is in the channel error      *)
(* state and the membership is as it was                                   *)
C20_Witness ==
    /\ result = "AlreadyMember"
    /\ error["channel"] = "AlreadyMember"
    /\ channels[1] = SettledChannel(1)

(* C21: the failure of a listener of any store subscription leaves a       *)
(* message in the error state of its store and raises nothing in any       *)
(* caller.                                                                 *)
C21_ListenerFailureRecorded ==
    [][LET Recorded(store) == error'[store] # "null" /\ result' = result
       IN  /\ JoinedSnapshotError => Recorded("channel")
           /\ PublicSnapshotError => Recorded("channel")
           /\ PersonalSnapshotError => Recorded("task")
           /\ \A c \in ChannelIds : ChannelTasksSnapshotError(c) => Recorded("task")
           /\ \A c \in ChannelIds : ChatSnapshotError(c) => Recorded("chat")
           /\ DMProviderSnapshotError => Recorded("dm")
           /\ \A t \in Users : DMSnapshotError(t) => Recorded("dm")]_vars

(* the listeners of the session that can still deliver: those not          *)
(* unsubscribed whose error callback has not run                           *)
LiveTaskListeners(x) ==
    IF x \in taskView.failed THEN 0
    ELSE IF x = Personal THEN taskView.personal ELSE taskView.chan[x]

C23_LeftChannelTasksDisappear ==
    (/\ taskView.user = TaskViewer /\ ~taskView.dirty
     /\ TaskViewer \notin channels[1].members
     /\ ~joinedChannels[TaskViewer][1].exists)
    ~> (\A t \in TaskIds :
           ~(taskCache[TaskViewer][t].exists /\ taskCache[TaskViewer][t].channelId = 1))

(* C24: the Channels page never has two submissions of the same join       *)
(* (the same channel, or the same invite code) in flight at once.          *)
C24_NoDuplicateJoinInFlight ==
    \A i, j \in DOMAIN joinView.pending :
        i # j => joinView.pending[i] # joinView.pending[j]

(* C25: a direct write to a private channel by an identity that is neither *)
(* its creator nor one of its admins is accepted only if the write carries *)
(* the channel's invite code; without the code such an identity does not   *)
(* become a member or an admin of the channel.                             *)
C25_PrivateChannelNeedsCode ==
    [][\A u \in Callers, c \in ChannelIds :
         \A f \in DirectFields(u, c) :
            (/\ DirectUpdate(u, c, f)
             /\ channels[c].exists /\ ~channels[c].isPublic
             /\ u # channels[c].createdBy /\ u \notin channels[c].admins
             /\ ~("inviteCode" \in DOMAIN f /\ f.inviteCode = channels[c].inviteCode))
            => /\ result' # "ok"
               /\ channels'[c].members = channels[c].members
               /\ channels'[c].admins = channels[c].admins]_vars

(* C26: when the personal-or-public listener of the session hears from the *)
(* backend it has not failed, and the personal tasks of the session's      *)
(* collection are exactly the stored personal tasks that the session's     *)
(* identity created or that are public.                                    *)
C26_PersonalOrPublicDelivered ==
    [][PersonalListen =>
         /\ Personal \notin taskView'.failed
         /\ \A t \in TaskIds :
               (taskCache'[taskView.user][t].exists
                   /\ taskCache'[taskView.user][t].channelId = Personal)
               <=> (/\ tasks[t].exists /\ tasks[t].channelId = Personal
                    /\ (tasks[t].createdBy = taskView.user
                           \/ tasks[t].privacy = "public"))]_vars

(* C27: for every identity and every task of a channel, the channel page   *)
(* shows the delete button iff the rules allow the identity to delete the  *)
(* task, and shows the Add Task button iff the rules allow it to create a  *)
(* task in the channel.                                                    *)
C27_GatesMirrorRules ==
    \A u \in Users, c \in ChannelIds :
        /\ canAddTasks(u, c) <=> RulesAllowTaskCreate(u, c)
        /\ \A t \in TaskIds :
              tasks[t].exists /\ tasks[t].channelId = c =>
                 (canDeleteTask(u, c, t) <=> RulesAllowChannelTaskDelete(u, c, t))

(* C28: in every channel the creator is an admin and the admins are        *)
(* members, also when the fetch and the write of promoteToAdmin are two    *)
(* steps with operations of other identities between them.                 *)
C28_RoleInvariantInterleaved ==
    \A c \in ChannelIds :
        channels[c].exists =>
            /\ channels[c].createdBy \in channels[c].admins
            /\ channels[c].admins \subseteq channels[c].members

(* C29: while the direct-message window is open on a user, the log holds   *)
(* only messages between the viewing identity and that user, whichever     *)
(* snapshot callback of the store came last.                               *)
C29_LogOnlyOpenConversation ==
    dmView.userId # NoUser =>
        \A i \in DOMAIN dmView.log :
            {dmView.log[i][1], dmView.log[i][2]} = {Viewer, dmView.userId}

(* C30: an updateTask by an identity the rules allow, on a stored channel  *)
(* task, succeeds and changes that channel's task record, whether or not   *)
(* the updates carry a channelId.                                          *)
C30_UpdateReachesChannelTask ==
    [][\A u \in TaskUsers, t \in TaskIds, up \in TaskUpdates :
          (/\ tasks[t].exists
           /\ tasks[t].channelId # Personal
           /\ RulesAllowTaskUpdate(u, t)
           /\ updateTask(u, t, up)) =>
              /\ result' = "ok"
              /\ tasks'[t].exists
              /\ tasks'[t].channelId = tasks[t].channelId
              /\ tasks'[t].dueDate = up.dueDate]_vars

====
